---- MODULE Spec2Model ----
(***************************************************************************)
(* Model of caeklol/minecraft-player: the NNLS solver (src/algebra.rs,     *)
(* both backends), the harness that runs both backends on one input        *)
(* (src/tests.rs) and the pipeline of main (src/main.rs).                  *)
(*                                                                         *)
(* Numbers.  The program computes in f32.  The model computes in exact     *)
(* rationals: a matrix is a shape, a row-major sequence of integer         *)
(* numerators and one positive denominator shared by all its elements.     *)
(* Rounding of f32 is therefore not represented.                           *)
(***************************************************************************)
EXTENDS Integers, Sequences, FiniteSets, TLC

VARIABLES
    \* ---- one solver call (algebra.rs) ----
    args,       \* the call: [fn, data, basis, iters, step]
    spc,        \* where the call is
    h,          \* cpu_pgd_nnls: the Array2 h; pgd_nnls: the host Vec h (as (r,n))
    it,         \* the loop counter i
    host,       \* pgd_nnls: the host vectors v, w, w_t
    dev,        \* pgd_nnls: contents of the six device buffers
    created,    \* pgd_nnls: device objects built so far, in order
    queue,      \* pgd_nnls: kernels enqueued and not yet executed
    devlog,     \* pgd_nnls: every enqueue, finish, read-back and refusal, in order
    ret,        \* the returned matrix (meaningful when spc = "returned")
    panic,      \* the message of the panic that stopped the process, or ""
    \* ---- the harness of tests.rs ----
    test,       \* [V, W, iters, step, order]
    tpc,        \* where the harness is
    out,        \* backend -> its normalized result
    unit,       \* one call of a function on its own: [op, arg, before, after]
    \* ---- the Processor of audio.rs and the threads that share it ----
    processor,  \* [fft_cache, ifft_cache], each a map length -> plan
    workers,    \* thread -> its call of fft or ifft: [pc, op, length, plan, miss, out]
    \* ---- main (main.rs) ----
    input,          \* what main reads: the palette, the recording
    pc,             \* where main is
    sound_ids,      \* the (identifier, pitch) keys, in palette order
    sound_bins,     \* W, one column per palette entry
    chunks,         \* V, one column per input tick
    approximation,  \* H after the solve and the post-processing
    index,          \* the tick the emission loop is at
    written,        \* the function files written, in the order written
    wav,            \* output.wav: [state, ticks]
    result          \* what main returned

solverVars == <<args, spc, h, it, host, dev, created, queue, devlog, ret>>
testVars == <<test, tpc, out, unit, processor, workers>>
\* everything a solver call leaves alone
callerVars == <<test, tpc, out, unit, processor, workers, input, pc, sound_ids, sound_bins, chunks,
                approximation, index, written, wav, result>>
mainVars == <<input, pc, sound_ids, sound_bins, chunks, approximation, index,
              written, wav, result>>
vars == <<args, spc, h, it, host, dev, created, queue, devlog, ret, panic, test, tpc, out,
          unit, processor, workers,
          input, pc, sound_ids, sound_bins, chunks, approximation, index, written,
          wav, result>>

----------------------------------------------------------------------------
(* Bounds of the model *)

\* largest row or column count of the matrices the harness draws
MaxDim == 2
\* largest iteration count the harness passes
MaxIters == 2

----------------------------------------------------------------------------
(* Arithmetic *)

Max(a, b) == IF a >= b THEN a ELSE b

Abs(a) == IF a >= 0 THEN a ELSE -a

RECURSIVE GCD(_, _)
GCD(a, b) == IF b = 0 THEN a ELSE GCD(b, a % b)

LCM(a, b) == (a \div GCD(a, b)) * b

\* a function on 1..n as the tuple of its values
Tuple(f) == SubSeq(f, 1, Len(f))

RECURSIVE SeqSum(_)
\* the sum of a sequence, by halves
SeqSum(s) ==
    IF Len(s) = 0 THEN 0
    ELSE IF Len(s) = 1 THEN s[1]
    ELSE SeqSum(SubSeq(s, 1, Len(s) \div 2))
            + SeqSum(SubSeq(s, Len(s) \div 2 + 1, Len(s)))

\* fold(NEG_INFINITY, f32::max) over a non-empty sequence
SeqMax(s) ==
    LET S == {s[k] : k \in 1..Len(s)} IN CHOOSE x \in S : \A y \in S : x >= y

----------------------------------------------------------------------------
(* ndarray: Array2<f32> and its views *)

\* element (i, j), 0-based as in the program
At(M, i, j) == M.e[i * M.nc + j + 1]

Shape(M) == <<M.nr, M.nc>>

\* Array2::<f32>::zeros((r, n))
zeros(r, n) == [nr |-> r, nc |-> n, e |-> [k \in 1..(r * n) |-> 0], d |-> 1]

\* ArrayBase::t / reversed_axes: element (i, j) of the result is (j, i) of M
reversed_axes(M) ==
    [nr |-> M.nc, nc |-> M.nr,
     e |-> [k \in 1..(M.nr * M.nc) |-> At(M, (k - 1) % M.nr, (k - 1) \div M.nr)],
     d |-> M.d]

\* ArrayBase::dot, for A of shape (p, q) and B of shape (q, s)
dot(A, B) ==
    [nr |-> A.nr, nc |-> B.nc,
     e |-> [k \in 1..(A.nr * B.nc) |->
              SeqSum([l \in 1..A.nc |->
                  At(A, (k - 1) \div B.nc, l - 1) * At(B, l - 1, (k - 1) % B.nc)])],
     d |-> A.d * B.d]

\* A - B, elementwise, same shape
sub(A, B) ==
    LET L == LCM(A.d, B.d) IN
    [nr |-> A.nr, nc |-> A.nc,
     e |-> [k \in 1..(A.nr * A.nc) |-> A.e[k] * (L \div A.d) - B.e[k] * (L \div B.d)],
     d |-> L]

\* A * s for a scalar s = s.n / s.d
scale(A, s) ==
    [nr |-> A.nr, nc |-> A.nc, e |-> [k \in 1..(A.nr * A.nc) |-> A.e[k] * s.n],
     d |-> A.d * s.d]

\* project with the clamp left out
ProjectNoop(M) == M

\* mapv_inplace(|x| x.max(0.0))
project(M) == [M EXCEPT !.e = [k \in 1..(M.nr * M.nc) |-> Max(M.e[k], 0)]]

\* normalize_to_global without the test max_val > 0.0
normalize_to_global_unguarded(M) ==
    IF M.e = <<>> THEN M ELSE [M EXCEPT !.d = SeqMax(M.e)]

\* normalize_to_global: divide every element by the maximum when it is > 0
normalize_to_global(M) ==
    IF M.e = <<>> THEN M
    ELSE LET max_val == SeqMax(M.e) IN
         IF max_val > 0 THEN [M EXCEPT !.d = max_val] ELSE M

----------------------------------------------------------------------------
(* The panics of the program, by their message *)

\* assert_eq!(m1, m2), algebra.rs lines 100 and 127
AssertFailed == "assertion left == right failed"

\* .unwrap() of an ocl result that is an Err
DeviceFailed == "called Result::unwrap() on an Err value"

\* &amplitudes[0..64] on a shorter slice, main.rs line 232
SliceFailed == "range end index 64 out of range for slice"

\* chunks_exact(0), main.rs line 187
ChunkFailed == "chunk size must be non-zero"

\* audio.rs line 63
ResampleFailed == "resample failed, input or output len was 0"

----------------------------------------------------------------------------
(* cpu_pgd_nnls *)

NoMatrix == zeros(0, 0)

NoArgs == [fn |-> "none", data |-> NoMatrix, basis |-> NoMatrix, iters |-> 0,
           step |-> [n |-> 0, d |-> 1]]

NoBuf == [e |-> <<>>, d |-> 1]

NoHost == [v |-> NoBuf, w |-> NoBuf, w_t |-> NoBuf]

NoDev == [w |-> NoBuf, w_t |-> NoBuf, v |-> NoBuf, h |-> NoBuf, whv |-> NoBuf,
          grad |-> NoBuf]

\* the call has not started, or its panic unwound, or it returned
SolverIdle ==
    /\ args = NoArgs /\ spc = "idle" /\ h = NoMatrix /\ it = 0 /\ host = NoHost
    /\ dev = NoDev /\ created = <<>> /\ queue = <<>> /\ devlog = <<>>
    /\ ret = NoMatrix

\* what a caller does to start a call
StartCall(fn, data, basis, iters, step) ==
    /\ args' = [fn |-> fn, data |-> data, basis |-> basis, iters |-> iters,
                step |-> step]
    /\ spc' = "entry"
    /\ h' = NoMatrix /\ it' = 0 /\ host' = NoHost /\ dev' = NoDev
    /\ created' = <<>> /\ queue' = <<>> /\ devlog' = <<>> /\ ret' = NoMatrix

\* cpu_entry with the assert_eq! left out
cpu_entry_unchecked ==
    /\ args.fn = "cpu_pgd_nnls" /\ spc = "entry"
    /\ h' = zeros(args.basis.nc, args.data.nc)
    /\ it' = 0
    /\ spc' = "cpu_loop"
    /\ UNCHANGED <<args, host, dev, created, queue, devlog, ret, panic>>
    /\ UNCHANGED callerVars

\* lines 97-102: dim, assert_eq!(m1, m2), h = zeros((r, n))
cpu_entry ==
    /\ args.fn = "cpu_pgd_nnls" /\ spc = "entry"
    /\ IF args.data.nr # args.basis.nr
       THEN /\ spc' = "panicked"
            /\ panic' = AssertFailed
            /\ UNCHANGED <<h, it>>
       ELSE /\ h' = zeros(args.basis.nc, args.data.nc)
            /\ it' = 0
            /\ spc' = "cpu_loop"
            /\ UNCHANGED panic
    /\ UNCHANGED <<args, host, dev, created, queue, devlog, ret>>
    /\ UNCHANGED callerVars

\* cpu_gradient with the step left out: h - grad
cpu_gradient_unscaled(h0, V, W, step) ==
    LET wt == reversed_axes(W)
        wh == dot(W, h0)
        grad == dot(wt, sub(wh, V))
    IN  sub(h0, grad)

\* lines 108-110: wh, grad, h = &h - &(grad * step)
cpu_gradient(h0, V, W, step) ==
    LET wt == reversed_axes(W)
        wh == dot(W, h0)
        grad == dot(wt, sub(wh, V))
    IN  sub(h0, scale(grad, step))

cpu_descend ==
    /\ args.fn = "cpu_pgd_nnls" /\ spc = "cpu_loop" /\ it < args.iters
    /\ h' = cpu_gradient(h, args.data, args.basis, args.step)
    /\ spc' = "cpu_project"
    /\ UNCHANGED <<args, it, host, dev, created, queue, devlog, ret>>
    /\ UNCHANGED <<panic, callerVars>>

\* line 111: h.mapv_inplace(|x| x.max(0.0)), and the loop's increment
cpu_project ==
    /\ args.fn = "cpu_pgd_nnls" /\ spc = "cpu_project"
    /\ h' = project(h)
    /\ it' = it + 1
    /\ spc' = "cpu_loop"
    /\ UNCHANGED <<args, host, dev, created, queue, devlog, ret>>
    /\ UNCHANGED <<panic, callerVars>>

\* line 115: the loop is over, h is returned
cpu_return ==
    /\ args.fn = "cpu_pgd_nnls" /\ spc = "cpu_loop" /\ it >= args.iters
    /\ ret' = h
    /\ spc' = "returned"
    /\ UNCHANGED <<args, h, it, host, dev, created, queue, devlog>>
    /\ UNCHANGED <<panic, callerVars>>

----------------------------------------------------------------------------
(* pgd_nnls: the host side *)

\* lines 130-131: data.iter().cloned().collect(), row-major
flat(M) == [e |-> M.e, d |-> M.d]

\* w_t with the indices of W left as they are
w_t_untransposed(basis, m1, r) == flat(basis)

\* lines 134-139: w_t[j * m1 + i] = basis[(i, j)]
build_w_t(basis, m1, r) ==
    [e |-> [k \in 1..(r * m1) |-> At(basis, (k - 1) % m1, (k - 1) \div m1)],
     d |-> basis.d]

\* lines 141-221, in order: the program, six buffers, three kernels
SetupSteps == <<"program", "buffer_w", "buffer_w_t", "buffer_v", "buffer_h",
                "buffer_whv", "buffer_grad", "k_whv", "k_grad", "k_update">>

\* lines 223-237: the kernels of one iteration, in order
Kernels == <<"gemm_whv", "gemm_grad", "update_h">>

EnqAt(k) == CASE k = "gemm_whv" -> "enq_whv" [] k = "gemm_grad" -> "enq_grad"
              [] k = "update_h" -> "enq_update"

FinAt(k) == CASE k = "gemm_whv" -> "fin_whv" [] k = "gemm_grad" -> "fin_grad"
              [] k = "update_h" -> "fin_update"

\* the head of `for i in 0..iters`
LoopHead(i) == IF i < args.iters THEN EnqAt("gemm_whv") ELSE "read"

\* lines 124-139: dim, assert_eq!(m1, m2), the host vectors v, w, h, w_t
pgd_entry ==
    /\ args.fn = "pgd_nnls" /\ spc = "entry"
    /\ IF args.data.nr # args.basis.nr
       THEN /\ spc' = "panicked"
            /\ panic' = AssertFailed
            /\ UNCHANGED <<h, host>>
       ELSE /\ h' = zeros(args.basis.nc, args.data.nc)
            /\ host' = [v |-> flat(args.data), w |-> flat(args.basis),
                        w_t |-> build_w_t(args.basis, args.data.nr, args.basis.nc)]
            /\ spc' = "gpu_setup"
            /\ UNCHANGED panic
    /\ UNCHANGED <<args, it, dev, created, queue, devlog, ret>>
    /\ UNCHANGED callerVars

\* what copy_host_slice puts in the buffer built at this step; buffer_whv and
\* buffer_grad are built without host data, and each is written by its kernel
\* before any kernel reads it
AfterBuild(step) ==
    CASE step = "buffer_w" -> [dev EXCEPT !.w = host.w]
      [] step = "buffer_w_t" -> [dev EXCEPT !.w_t = host.w_t]
      [] step = "buffer_v" -> [dev EXCEPT !.v = host.v]
      [] step = "buffer_h" -> [dev EXCEPT !.h = flat(h)]
      [] step = "buffer_whv" ->
            [dev EXCEPT !.whv = flat(zeros(args.data.nr, args.data.nc))]
      [] step = "buffer_grad" ->
            [dev EXCEPT !.grad = flat(zeros(args.basis.nc, args.data.nc))]
      [] OTHER -> dev

\* lines 141-221: one build(...).unwrap(); the device may refuse any of them
pgd_build ==
    /\ args.fn = "pgd_nnls" /\ spc = "gpu_setup"
    /\ Len(created) < Len(SetupSteps)
    /\ LET step == SetupSteps[Len(created) + 1] IN
       \E ok \in BOOLEAN :
          IF ok
          THEN /\ created' = Append(created, step)
               /\ dev' = AfterBuild(step)
               /\ spc' = IF Len(created) + 1 = Len(SetupSteps)
                         THEN LoopHead(0) ELSE "gpu_setup"
               /\ UNCHANGED <<panic, devlog>>
          ELSE /\ spc' = "panicked"
               /\ panic' = DeviceFailed
               /\ devlog' = Append(devlog, <<"failed", step>>)
               /\ UNCHANGED <<created, dev>>
    /\ UNCHANGED <<args, h, it, host, queue, ret>>
    /\ UNCHANGED callerVars

----------------------------------------------------------------------------
(* pgd_nnls: the three kernels of pgd.ocl, on row-major buffers *)

\* gemm_whv: out[i * n + c] = sum_j W[i * r + j] * H[j * n + c] - V[i * n + c]
gemm_whv(W, H, V, m, n, r) ==
    LET p == W.d * H.d
        L == LCM(p, V.d)
    IN  [e |-> [k \in 1..(m * n) |->
                  SeqSum([j \in 1..r |->
                      W.e[((k - 1) \div n) * r + j] * H.e[(j - 1) * n + ((k - 1) % n) + 1]])
                    * (L \div p)
                  - V.e[k] * (L \div V.d)],
         d |-> L]

\* gemm_grad: out[j * n + c] = sum_i W_t[j * m + i] * A[i * n + c]
gemm_grad(Wt, A, r, n, m) ==
    [e |-> [k \in 1..(r * n) |->
              SeqSum([i \in 1..m |->
                  Wt.e[((k - 1) \div n) * m + i] * A.e[(i - 1) * n + ((k - 1) % n) + 1]])],
     d |-> Wt.d * A.d]

\* update_h: H[k] = max(0, H[k] - step * G[k])
update_h(H, G, step, r, n) ==
    LET g == G.d * step.d
        L == LCM(H.d, g)
    IN  [e |-> [k \in 1..(r * n) |->
                  Max(0, H.e[k] * (L \div H.d) - G.e[k] * step.n * (L \div g))],
         d |-> L]

\* the effect of one kernel with the arguments pgd_nnls bound to it
\* (lines 190-221)
RunKernel(k) ==
    LET m == args.data.nr
        n == args.data.nc
        r == args.basis.nc
    IN  CASE k = "gemm_whv" ->
               [dev EXCEPT !.whv = gemm_whv(dev.w, dev.h, dev.v, m, n, r)]
          [] k = "gemm_grad" ->
               [dev EXCEPT !.grad = gemm_grad(dev.w_t, dev.whv, r, n, m)]
          [] k = "update_h" ->
               [dev EXCEPT !.h = update_h(dev.h, dev.grad, args.step, r, n)]

\* lines 225, 229, 233: unsafe { k.enq().unwrap(); }
pgd_enqueue(k) ==
    /\ args.fn = "pgd_nnls" /\ spc = EnqAt(k)
    /\ \E ok \in BOOLEAN :
          IF ok
          THEN /\ queue' = Append(queue, k)
               /\ devlog' = Append(devlog, <<"enq", k>>)
               /\ spc' = FinAt(k)
               /\ UNCHANGED panic
          ELSE /\ spc' = "panicked"
               /\ panic' = DeviceFailed
               /\ devlog' = Append(devlog, <<"failed", k>>)
               /\ UNCHANGED queue
    /\ UNCHANGED <<args, h, it, host, dev, created, ret>>
    /\ UNCHANGED callerVars

\* the device executes the oldest enqueued kernel (an in-order queue)
device_run ==
    /\ args.fn = "pgd_nnls" /\ spc \in {FinAt(Kernels[x]) : x \in 1..Len(Kernels)}
    /\ queue # <<>>
    /\ dev' = RunKernel(Head(queue))
    /\ queue' = Tail(queue)
    /\ devlog' = Append(devlog, <<"run", Head(queue)>>)
    /\ UNCHANGED <<args, spc, h, it, host, created, ret>>
    /\ UNCHANGED <<panic, callerVars>>

\* the loop body with update_h enqueued right after gemm_whv
AfterFinish_grad_skipped(k) ==
    CASE k = "gemm_whv" -> EnqAt("update_h")
      [] k = "gemm_grad" -> EnqAt("update_h")
      [] k = "update_h" -> LoopHead(it + 1)

\* where the host goes after the finish that follows kernel k
AfterFinish(k) ==
    CASE k = "gemm_whv" -> EnqAt("gemm_grad")
      [] k = "gemm_grad" -> EnqAt("update_h")
      [] k = "update_h" -> LoopHead(it + 1)

\* pgd_finish with the result of finish() dropped instead of unwrapped
pgd_finish_ignored(k) ==
    /\ args.fn = "pgd_nnls" /\ spc = FinAt(k)
    /\ \E ok \in BOOLEAN :
          /\ ok => queue = <<>>
          /\ devlog' = Append(devlog, IF ok THEN <<"finish", k>>
                                             ELSE <<"failed", "finish">>)
          /\ spc' = AfterFinish(k)
          /\ it' = IF k = "update_h" THEN it + 1 ELSE it
    /\ UNCHANGED <<args, h, host, dev, created, queue, ret, panic>>
    /\ UNCHANGED callerVars

\* lines 226, 230, 234: pq.finish().unwrap() returns once the queue is empty
pgd_finish(k) ==
    /\ args.fn = "pgd_nnls" /\ spc = FinAt(k)
    /\ \E ok \in BOOLEAN :
          IF ok
          THEN /\ queue = <<>>
               /\ devlog' = Append(devlog, <<"finish", k>>)
               /\ spc' = AfterFinish(k)
               /\ it' = IF k = "update_h" THEN it + 1 ELSE it
               /\ UNCHANGED panic
          ELSE /\ spc' = "panicked"
               /\ panic' = DeviceFailed
               /\ devlog' = Append(devlog, <<"failed", "finish">>)
               /\ UNCHANGED it
    /\ UNCHANGED <<args, h, host, dev, created, queue, ret>>
    /\ UNCHANGED callerVars

\* lines 240-243: buffer_h.read(&mut h).enq().unwrap(), from_shape_vec((r, n), h)
pgd_read ==
    /\ args.fn = "pgd_nnls" /\ spc = "read"
    /\ \E ok \in BOOLEAN :
          IF ok
          THEN /\ queue = <<>>
               /\ h' = [h EXCEPT !.e = dev.h.e, !.d = dev.h.d]
               /\ ret' = h'
               /\ devlog' = Append(devlog, <<"read", "buffer_h">>)
               /\ spc' = "returned"
               /\ UNCHANGED panic
          ELSE /\ spc' = "panicked"
               /\ panic' = DeviceFailed
               /\ devlog' = Append(devlog, <<"failed", "read">>)
               /\ UNCHANGED <<h, ret>>
    /\ UNCHANGED <<args, it, host, dev, created, queue>>
    /\ UNCHANGED callerVars

cpu_pgd_nnls == cpu_entry \/ cpu_descend \/ cpu_project \/ cpu_return

pgd_nnls ==
    \/ pgd_entry
    \/ pgd_build
    \/ \E x \in 1..Len(Kernels) : pgd_enqueue(Kernels[x])
    \/ device_run
    \/ \E x \in 1..Len(Kernels) : pgd_finish(Kernels[x])
    \/ pgd_read

----------------------------------------------------------------------------
(* tests.rs: nnls_test and shape_test, one input given to both backends *)

\* element k of a matrix filled row-major with the pattern p, repeated
Fill(p, nr, nc) ==
    [nr |-> nr, nc |-> nc, e |-> [k \in 1..(nr * nc) |-> p[((k - 1) % Len(p)) + 1]],
     d |-> 1]

\* the values of V and of W the harness draws, all within [-1, 1] as after
\* normalize_to_minus_plus
DataPatterns == {<<1, 0, -1>>, <<0, 1, 1, -1>>, <<-1, 1>>}

BasisPatterns == {<<1, 0, 0, 1>>, <<1, -1, 1>>, <<0, 1, 1, 1, -1>>}

\* the step sizes the harness passes
Steps == {[n |-> 1, d |-> 1], [n |-> 1, d |-> 2]}

Backends == {"cpu_pgd_nnls", "pgd_nnls"}

TestInputs ==
    { [V |-> Fill(pv, m1, n), W |-> Fill(pw, m2, r), iters |-> i, step |-> t,
       order |-> o] :
        pv \in DataPatterns, pw \in BasisPatterns,
        m1 \in 0..MaxDim, m2 \in 0..MaxDim, n \in 0..MaxDim, r \in 0..MaxDim,
        i \in 0..MaxIters, t \in Steps,
        o \in {<<"cpu_pgd_nnls", "pgd_nnls">>, <<"pgd_nnls", "cpu_pgd_nnls">>} }

\* lines 84-85: the closure handed to nnls_test calls one backend
shape_test_call ==
    /\ tpc = "call" /\ spc = "idle"
    /\ StartCall(test.order[Cardinality(DOMAIN out) + 1], test.V, test.W,
                 test.iters, test.step)
    /\ tpc' = "wait"
    /\ UNCHANGED <<test, out, panic, unit, processor, workers>>
    /\ UNCHANGED mainVars

\* lines 72-77: approx = f(..), normalize_to_global(&mut approx)
shape_test_collect ==
    /\ tpc = "wait" /\ spc = "returned"
    /\ out' = out @@ (args.fn :> normalize_to_global(ret))
    /\ tpc' = IF DOMAIN out' = Backends THEN "compare" ELSE "call"
    /\ args' = NoArgs /\ spc' = "idle" /\ h' = NoMatrix /\ it' = 0
    /\ host' = NoHost /\ dev' = NoDev /\ created' = <<>> /\ queue' = <<>>
    /\ devlog' = <<>> /\ ret' = NoMatrix
    /\ UNCHANGED <<test, panic, unit, processor, workers>>
    /\ UNCHANGED mainVars

\* a panic of the backend unwinds through the harness: the test fails there
shape_test_unwind ==
    /\ tpc = "wait" /\ spc = "panicked"
    /\ tpc' = "panicked"
    /\ UNCHANGED <<solverVars, test, out, panic, unit, processor, workers>>
    /\ UNCHANGED mainVars

\* lines 87-91: err = max over the zipped elements of gpu - cpu, err < 1e-7
shape_test_compare ==
    /\ tpc = "compare"
    /\ LET cpu == out["cpu_pgd_nnls"]
           gpu == out["pgd_nnls"]
           len == IF Len(cpu.e) <= Len(gpu.e) THEN Len(cpu.e) ELSE Len(gpu.e)
       IN  \* (g - c) / D < 1e-7  iff  g - c <= (D - 1) div 10^7
           tpc' = IF \A k \in 1..len :
                        gpu.e[k] * cpu.d - cpu.e[k] * gpu.d
                            <= (gpu.d * cpu.d - 1) \div 10000000
                   THEN "passed" ELSE "failed"
    /\ UNCHANGED <<solverVars, test, out, panic, unit, processor, workers>>
    /\ UNCHANGED mainVars

shape_test ==
    shape_test_call \/ shape_test_collect \/ shape_test_unwind \/ shape_test_compare

----------------------------------------------------------------------------
(* main.rs: the pipeline *)

\* Bounds of the pipeline's inputs.  The program cuts ticks of 50 ms and brings
\* every palette sound to 48000 Hz, 2400 samples a tick; the model keeps the
\* 50 ms and scales the palette's rate down to TickLen samples a tick.
TickLen == 2
\* most source sounds in the palette
MaxSounds == 1
\* most samples in the recording
MaxSamples == 5
\* main passes 128 iterations; the model runs the same loop MainIters times
MainIters == 1

\* line 232: &amplitudes[0..64]
TopK == 64
\* line 149: permute_with_pitch(predictable_sounds, 256)
Resolution == 256
\* line 184: time_as_samples!(50, sample_rate)
TickMs == 50

\* main passes the step 1e-6; a step t on (V, W) is the step 1 on
\* (sqrt(t) V, sqrt(t) W), so the model passes 1 and draws V and W freely
MainStep == [n |-> 1, d |-> 1]

\* line 213: apply_epsilon(&mut approximation, 1e-5)
Epsilon == [n |-> 1, d |-> 100000]

\* audio.rs lines 2-6: time_as_samples!
time_as_samples(sample_rate, time) == (sample_rate * time) \div 1000

\* the rate at which one tick is TickLen samples
PaletteRate == (TickLen * 1000) \div TickMs

\* Sound::mel keeps the length and the rate of the sound.  Its values are
\* fft -> one real weight per bin -> ifft -> real part, which is a circular
\* convolution of the windowed samples with one fixed real kernel; the model
\* uses the kernel (2, 1) and leaves the window out.
mel(samples) ==
    [i \in 1..Len(samples) |->
        2 * samples[i] + samples[((i + Len(samples) - 2) % Len(samples)) + 1]]

RECURSIVE Flatten(_)
\* into_iter().flatten().collect(), by halves
Flatten(rows) ==
    IF Len(rows) = 0 THEN <<>>
    ELSE IF Len(rows) = 1 THEN rows[1]
    ELSE Flatten(SubSeq(rows, 1, Len(rows) \div 2))
            \o Flatten(SubSeq(rows, Len(rows) \div 2 + 1, Len(rows)))

\* algebra.rs lines 55-65: the shape is (rows, length of the first row);
\* ArrayView2::from_shape refuses a slice shorter than the shape and reads
\* the first rows * cols elements of a longer one
matrix_from_vecs(matrix_vec) ==
    LET flat_vec == Flatten(matrix_vec)
        rows == Len(matrix_vec)
        cols == IF rows > 0 THEN Len(matrix_vec[1]) ELSE 0
    IN  IF rows * cols > Len(flat_vec)
        THEN [ok |-> FALSE, m |-> NoMatrix]
        ELSE [ok |-> TRUE,
              m |-> [nr |-> rows, nc |-> cols,
                     e |-> SubSeq(flat_vec, 1, rows * cols), d |-> 1]]

\* apply_epsilon(A, eps): entries strictly below eps become zero
\* (e / d < n / D  iff  e * D < d * n  iff  e <= (d * n - 1) div D)
apply_epsilon(M, eps) ==
    [M EXCEPT !.e = [k \in 1..(M.nr * M.nc) |->
        IF M.e[k] <= (M.d * eps.n - 1) \div eps.d THEN 0 ELSE M.e[k]]]

\* apply_epsilon on the solver's result as it is, not normalized
postprocess_unnormalized(M) == apply_epsilon(M, Epsilon)

\* main.rs lines 212-213: normalize_to_global(&mut approximation), then
\* apply_epsilon(&mut approximation, 1e-5)
postprocess(M) == apply_epsilon(normalize_to_global(M), Epsilon)

\* algebra.rs lines 9-14: interpolated_range(0.5, 2.0, r), element i, as the
\* fraction (a + i * (b - a) / (r - 1)) = ((r - 1) + 3 i) / (2 (r - 1))
interpolated_range(r) ==
    [i \in 1..r |-> [n |-> (r - 1) + 3 * (i - 1), d |-> 2 * (r - 1)]]

SoundNames == <<"block.anvil.land", "entity.cat.ambient", "block.bell.use">>

\* what permute_with_pitch returns for `count` sounds (audio.rs lines 21-34):
\* samples outer, pitches inner, every Sound one tick long; its samples are
\* drawn from the pattern p
Palette(count, p) ==
    LET pitches == interpolated_range(Resolution) IN
    [j \in 1..(count * Resolution) |->
        [id |-> SoundNames[((j - 1) \div Resolution) + 1],
         pitch |-> pitches[((j - 1) % Resolution) + 1],
         samples |-> [i \in 1..TickLen |->
                        p[(((j - 1) * TickLen + i - 1) % Len(p)) + 1]]]]

PalettePatterns == {<<0, 1, 1, 0, 1, 0, 0>>, <<1, 0, 2, 0, 0, 1, 3, 0, 1, 1, 0>>}

SamplePatterns == {<<1, 0, 2>>, <<0, 3, -1, 1, 2>>}

\* the sample rates of the recordings drawn: none, the palette's, a higher one
SampleRates == {0, PaletteRate, PaletteRate + 20}

MainInputs ==
    { [palette |-> Palette(count, pp), channels |-> c, sample_rate |-> rate,
       samples |-> [i \in 1..len |-> ps[((i - 1) % Len(ps)) + 1]]] :
        count \in 0..MaxSounds, pp \in PalettePatterns, c \in {1, 2},
        rate \in SampleRates, len \in 0..MaxSamples, ps \in SamplePatterns }

\* lines 149-161: mel of every palette sound, the keys, W
main_palette ==
    /\ pc = "palette"
    /\ LET sounds == [j \in 1..Len(input.palette) |->
                        [id |-> input.palette[j].id, pitch |-> input.palette[j].pitch,
                         samples |-> mel(input.palette[j].samples)]]
           bins == matrix_from_vecs([j \in 1..Len(sounds) |-> sounds[j].samples])
       IN  IF bins.ok
           THEN /\ sound_ids' = [j \in 1..Len(sounds) |->
                                   [id |-> sounds[j].id, pitch |-> sounds[j].pitch]]
                /\ sound_bins' = reversed_axes(bins.m)
                /\ pc' = "open"
                /\ UNCHANGED result
           ELSE /\ pc' = "returned"
                /\ result' = "Err(shape)"
                /\ UNCHANGED <<sound_ids, sound_bins>>
    /\ UNCHANGED <<input, chunks, approximation, index, written, wav, panic>>
    /\ UNCHANGED <<solverVars, testVars>>

\* main_open with the check of the channels left out
main_open_any_channels ==
    /\ pc = "open"
    /\ pc' = "chunks"
    /\ UNCHANGED <<input, sound_ids, sound_bins, chunks, approximation, index,
                   written, wav, result, panic>>
    /\ UNCHANGED <<solverVars, testVars>>

\* lines 164-172: open the recording, refuse more than one channel
main_open ==
    /\ pc = "open"
    /\ IF input.channels > 1
       THEN /\ pc' = "returned"
            /\ result' = "Err(input was stereo)"
       ELSE /\ pc' = "chunks"
            /\ UNCHANGED result
    /\ UNCHANGED <<input, sound_ids, sound_bins, chunks, approximation, index,
                   written, wav, panic>>
    /\ UNCHANGED <<solverVars, testVars>>

\* chunks_exact with the remainder kept as one more chunk, filled up with zeros
chunks_padded(samples, size) ==
    [k \in 1..((Len(samples) + size - 1) \div size) |->
        [j \in 1..size |->
            IF (k - 1) * size + j <= Len(samples)
            THEN samples[(k - 1) * size + j] ELSE 0]]

\* chunks_exact(size) for size > 0: the whole chunks, in order
chunks_exact(samples, size) ==
    [k \in 1..(Len(samples) \div size) |->
        SubSeq(samples, (k - 1) * size + 1, k * size)]

\* lines 174-207: the samples, the ticks, mel of every tick, V, and the two
\* normalize_to_global; chunks_exact panics on a chunk size of 0
main_chunks ==
    /\ pc = "chunks"
    /\ LET samples_per_tick == time_as_samples(TickMs, input.sample_rate) IN
       IF samples_per_tick = 0
       THEN /\ pc' = "panicked"
            /\ panic' = ChunkFailed
            /\ UNCHANGED <<chunks, sound_bins, result>>
       ELSE LET ticks == chunks_exact(input.samples, samples_per_tick)
                V == matrix_from_vecs([k \in 1..Len(ticks) |-> mel(ticks[k])])
            IN  IF V.ok
                THEN /\ chunks' = normalize_to_global(reversed_axes(V.m))
                     /\ sound_bins' = normalize_to_global(sound_bins)
                     /\ pc' = "solve"
                     /\ UNCHANGED <<result, panic>>
                ELSE /\ pc' = "returned"
                     /\ result' = "Err(shape)"
                     /\ UNCHANGED <<chunks, sound_bins, panic>>
    /\ UNCHANGED <<input, sound_ids, approximation, index, written, wav>>
    /\ UNCHANGED <<solverVars, testVars>>

\* line 210: algebra::pgd_nnls(&chunks, &sound_bins, 128, 1e-6), called
main_solve ==
    /\ pc = "solve" /\ spc = "idle"
    /\ StartCall("pgd_nnls", chunks, sound_bins, MainIters, MainStep)
    /\ pc' = "solving"
    /\ UNCHANGED <<input, sound_ids, sound_bins, chunks, approximation, index,
                   written, wav, result, panic>>
    /\ UNCHANGED testVars

\* a panic of the solver unwinds through main
main_unwind ==
    /\ pc = "solving" /\ spc = "panicked"
    /\ pc' = "panicked"
    /\ UNCHANGED <<input, sound_ids, sound_bins, chunks, approximation, index,
                   written, wav, result, panic>>
    /\ UNCHANGED <<solverVars, testVars>>

\* lines 210-226: the solver's result, normalize_to_global, apply_epsilon,
\* and output.wav created
main_save ==
    /\ pc = "solving" /\ spc = "returned"
    /\ approximation' = postprocess(ret)
    /\ wav' = [state |-> "open", ticks |-> <<>>]
    /\ index' = 0
    /\ pc' = "ticks"
    /\ args' = NoArgs /\ spc' = "idle" /\ h' = NoMatrix /\ it' = 0
    /\ host' = NoHost /\ dev' = NoDev /\ created' = <<>> /\ queue' = <<>>
    /\ devlog' = <<>> /\ ret' = NoMatrix
    /\ UNCHANGED <<input, sound_ids, sound_bins, chunks, written, result, panic>>
    /\ UNCHANGED testVars

\* sort_desc with the comparison turned round: ascending amplitude
sort_asc(s) ==
    LET n == Len(s)
        v == SubSeq(s, 1, n)
        place == SubSeq([i \in 1..n |->
                    Cardinality({k \in 1..n :
                        \/ v[k].amp < v[i].amp
                        \/ v[k].amp = v[i].amp /\ k < i}) + 1], 1, n)
    IN  [p \in 1..n |-> v[CHOOSE i \in 1..n : place[i] = p]]

\* sort_by(|a, b| b.amp.partial_cmp(a.amp)), a stable sort: an element's place
\* is behind every element of larger amplitude and behind the elements of the
\* same amplitude that came before it
sort_desc(s) ==
    LET n == Len(s)
        v == SubSeq(s, 1, n)
        place == SubSeq([i \in 1..n |->
                    Cardinality({k \in 1..n :
                        \/ v[k].amp > v[i].amp
                        \/ v[k].amp = v[i].amp /\ k < i}) + 1], 1, n)
    IN  [p \in 1..n |-> v[CHOOSE i \in 1..n : place[i] = p]]

\* zip_column with the keys one place off: amplitude i beside the key of
\* column i + 1
zip_column_shifted(H, ids, tick) ==
    [i \in 1..(IF H.nr <= Len(ids) THEN H.nr ELSE Len(ids)) |->
        [column |-> i - 1, amp |-> At(H, i - 1, tick),
         key |-> ids[(i % Len(ids)) + 1]]]

\* line 229: amplitudes.iter().zip(&sound_ids).enumerate(), for one column of H
zip_column(H, ids, tick) ==
    [i \in 1..(IF H.nr <= Len(ids) THEN H.nr ELSE Len(ids)) |->
        [column |-> i - 1, amp |-> At(H, i - 1, tick), key |-> ids[i]]]

\* lines 235-250: the tick's waveform, every emitted entry's column of W
\* times its amplitude, summed
mix(entries, W, H) ==
    [e |-> Tuple([j \in 1..TickLen |->
              IF j <= W.nr
              THEN SeqSum([x \in 1..Len(entries) |->
                             entries[x].amp * At(W, j - 1, entries[x].column)])
              ELSE 0]),
     d |-> H.d * W.d]

\* line 238: one playsound line for every entry kept, in their order; the
\* text shows name, amplitude and pitch, the last two to five decimals (the
\* rounding of the text is not represented)
playsounds(top, d) ==
    Tuple([x \in 1..Len(top) |->
        [column |-> top[x].column, name |-> top[x].key.id, pitch |-> top[x].key.pitch,
         amplitude |-> [n |-> top[x].amp, d |-> d]]])

\* top_k with the whole slice kept
top_k_all(amplitudes) == SubSeq(amplitudes, 1, Len(amplitudes))

\* line 232: &amplitudes[0..64], for a slice that is long enough
top_k(amplitudes) == SubSeq(amplitudes, 1, TopK)

\* function_name counting from one
function_name_from_one(i) == i + 1

\* line 257: the tick's file is ./function/{index}.mcfunction
function_name(i) == i

\* line 256: the last line of a tick's file schedules function index + 1
schedule_target(i) == i + 1

\* lines 228-258: one round of the loop over the columns of H; the slice
\* [0..64] panics when the palette has fewer than 64 entries
main_tick ==
    /\ pc = "ticks" /\ index < approximation.nc
    /\ LET amplitudes == sort_desc(zip_column(approximation, sound_ids, index)) IN
       IF Len(amplitudes) < TopK
       THEN /\ pc' = "panicked"
            /\ panic' = SliceFailed
            /\ UNCHANGED <<written, wav, index>>
       ELSE LET top == top_k(amplitudes) IN
            /\ written' = Append(written,
                  [file |-> function_name(index),
                   entries |-> playsounds(top, approximation.d),
                   schedule |-> schedule_target(index)])
            /\ wav' = [wav EXCEPT !.ticks = Append(@, mix(top, sound_bins, approximation))]
            /\ index' = index + 1
            /\ pc' = "ticks"
            /\ UNCHANGED panic
    /\ UNCHANGED <<input, sound_ids, sound_bins, chunks, approximation, result>>
    /\ UNCHANGED <<solverVars, testVars>>

\* lines 260-262: the loop is over, writer.finalize(), Ok(())
main_finish ==
    /\ pc = "ticks" /\ index >= approximation.nc
    /\ wav' = [wav EXCEPT !.state = "finalized"]
    /\ result' = "Ok"
    /\ pc' = "returned"
    /\ UNCHANGED <<input, sound_ids, sound_bins, chunks, approximation, index, written,
                   panic>>
    /\ UNCHANGED <<solverVars, testVars>>

main ==
    \/ main_palette
    \/ main_open
    \/ main_chunks
    \/ main_solve
    \/ main_unwind
    \/ main_save
    \/ main_tick
    \/ main_finish

----------------------------------------------------------------------------
(* audio.rs: the Processor and its two plan caches *)

\* most threads inside fft or ifft at once (rayon's pool, main.rs lines 149-152)
MaxWorkers == 2

Workers == 1..MaxWorkers

\* a plan of the FftPlanner: its length, its direction, and the statement
\* that built it
Plan(length, op, by) == [len |-> length, inverse |-> (op = "ifft"), built |-> by]

\* audio.rs lines 180-184: the lengths planned by Processor::new, one tick at
\* 44.1 kHz and one at 48 kHz
CachedLengths == {time_as_samples(44100, TickMs), time_as_samples(48000, TickMs)}

\* audio.rs lines 176-190: Processor::new
Processor_new ==
    [fft_cache |-> [n \in CachedLengths |-> Plan(n, "fft", "new")],
     ifft_cache |-> [n \in CachedLengths |-> Plan(n, "ifft", "new")]]

\* the transform lengths the callers pass: the two cached ones and two that
\* are not (the window of fft, apodize::hamming_iter, is taken for lengths
\* of 2 and more)
TransformLengths == CachedLengths \cup {2, 3}

NoPlan == [len |-> 0, inverse |-> FALSE, built |-> "none"]

Idle == [pc |-> "idle", op |-> "none", length |-> 0, plan |-> NoPlan,
         miss |-> FALSE, out |-> 0]

\* the Processor built, no thread inside it
ProcessorIdle == processor = Processor_new /\ workers = [w \in Workers |-> Idle]

\* the cache a call reads: fft_cache in fft, ifft_cache in ifft
CacheOf(op) == IF op = "fft" THEN processor.fft_cache ELSE processor.ifft_cache

\* lines 192-206 and 231-233: a thread enters fft with a sound of `length`
\* samples, or ifft with a spectrum of `length` bins; the buffer is built
Processor_call(w) ==
    /\ workers[w].pc = "idle"
    /\ \E op \in {"fft", "ifft"} : \E length \in TransformLengths :
          workers' = [workers EXCEPT ![w] =
                        [Idle EXCEPT !.pc = "get", !.op = op, !.length = length]]
    /\ UNCHANGED processor

\* the lookup that keeps the plan it built on a miss in the cache
Processor_get_memoized(w) ==
    /\ workers[w].pc = "get"
    /\ LET op == workers[w].op
           length == workers[w].length
           hit == length \in DOMAIN CacheOf(op)
           plan == IF hit THEN CacheOf(op)[length] ELSE Plan(length, op, "miss")
       IN  /\ workers' = [workers EXCEPT ![w].pc = "process", ![w].plan = plan,
                                         ![w].miss = ~hit]
           /\ processor' =
                 IF hit THEN processor
                 ELSE IF op = "fft"
                 THEN [processor EXCEPT !.fft_cache = (length :> plan) @@ @]
                 ELSE [processor EXCEPT !.ifft_cache = (length :> plan) @@ @]

\* lines 208-214 and 235-241: match self.cache.get(&length), the cached plan
\* or, on a miss, a plan of a new FftPlanner; &self, so neither cache is
\* written
Processor_get(w) ==
    /\ workers[w].pc = "get"
    /\ LET op == workers[w].op
           length == workers[w].length
           hit == length \in DOMAIN CacheOf(op)
           plan == IF hit THEN CacheOf(op)[length] ELSE Plan(length, op, "miss")
       IN  workers' = [workers EXCEPT ![w].pc = "process", ![w].plan = plan,
                                      ![w].miss = ~hit]
    /\ UNCHANGED processor

\* lines 216-227 and 243-244: plan.process(&mut buffer), which takes a
\* buffer of the plan's length, and the bins or samples returned, one for
\* each element of the buffer
Processor_process(w) ==
    /\ workers[w].pc = "process"
    /\ workers[w].plan.len = workers[w].length
    /\ workers[w].plan.inverse = (workers[w].op = "ifft")
    /\ workers' = [workers EXCEPT ![w].pc = "returned", ![w].out = workers[w].length]
    /\ UNCHANGED processor

\* the caller has the result; the thread is free for its next call
Processor_return(w) ==
    /\ workers[w].pc = "returned"
    /\ workers' = [workers EXCEPT ![w] = Idle]
    /\ UNCHANGED processor

----------------------------------------------------------------------------
(* The two programs *)

NoInput == [palette |-> <<>>, channels |-> 0, sample_rate |-> 0, samples |-> <<>>]

NoTest == [V |-> NoMatrix, W |-> NoMatrix, iters |-> 0, step |-> [n |-> 0, d |-> 1],
           order |-> <<>>]

NoWav == [state |-> "none", ticks |-> <<>>]

NoUnit == [op |-> "none", arg |-> 0, before |-> 0, after |-> 0]

\* main before its first statement
MainStart ==
    /\ sound_ids = <<>> /\ sound_bins = NoMatrix /\ chunks = NoMatrix
    /\ approximation = NoMatrix /\ index = 0 /\ written = <<>> /\ wav = NoWav
    /\ result = "running"

\* the binary: main on one palette and one recording
Init ==
    /\ SolverIdle
    /\ panic = ""
    /\ test = NoTest /\ tpc = "off" /\ out = << >> /\ unit = NoUnit
    /\ ProcessorIdle
    /\ input \in MainInputs
    /\ pc = "palette"
    /\ MainStart

Next == main \/ pgd_nnls

Spec == Init /\ [][Next]_vars

\* the harness: both backends on one input
SolverInit ==
    /\ SolverIdle
    /\ panic = ""
    /\ test \in TestInputs
    /\ tpc = "call"
    /\ out = << >>
    /\ unit = NoUnit
    /\ ProcessorIdle
    /\ input = NoInput
    /\ pc = "off"
    /\ MainStart

SolverNext == shape_test \/ cpu_pgd_nnls \/ pgd_nnls

SolverSpec == SolverInit /\ [][SolverNext]_vars

----------------------------------------------------------------------------
(* audio.rs: Sound and its methods, each called on its own as in the unit    *)
(* tests of tests.rs.  A Sound is its samples (integer numerators over one   *)
(* denominator d) and its sample_rate.                                       *)

\* sample rates of the sounds drawn: 10, 20, ... Hz, so that 50 ms is a
\* whole number of samples at some rates and not at others
MaxRateStep == 6
\* most samples in a sound drawn, most rows and columns in a matrix drawn
MaxLen == 4

UnitRates == {10 * k : k \in 1..MaxRateStep}

\* tests.rs lines 7-20: (sample_rate * duration_ms) / 1000 samples of a tone;
\* the sine of the source is stood for by a wave of small integers
gen_frequency(hz, sample_rate, duration_ms) ==
    [samples |-> [i \in 1..((sample_rate * duration_ms) \div 1000) |->
                     ((hz * (i - 1)) % 5) - 2],
     d |-> 1, sample_rate |-> sample_rate]

\* first_tick with the length rounded down, as time_as_samples! does
first_tick_floor(sound) ==
    LET samples_per_tick == (sound.sample_rate * 50) \div 1000 IN
    [sound EXCEPT !.samples =
        [i \in 1..samples_per_tick |->
            IF i <= Len(sound.samples) THEN sound.samples[i] ELSE 0]]

\* audio.rs lines 44-54: ceil(sample_rate * 50 / 1000) samples, the sound cut
\* there or filled up with zeros
first_tick(sound) ==
    LET samples_per_tick == (sound.sample_rate * 50 + 999) \div 1000 IN
    [sound EXCEPT !.samples =
        [i \in 1..samples_per_tick |->
            IF i <= Len(sound.samples) THEN sound.samples[i] ELSE 0]]

\* tests.rs lines 35-42: first_tick of a tone of 50 ms
test_firsttick ==
    /\ unit.op = "none"
    /\ \E hz \in {1, 3} : \E rate \in UnitRates :
          LET tone == gen_frequency(hz, rate, 50) IN
          unit' = [op |-> "first_tick", arg |-> hz, before |-> tone,
                   after |-> first_tick(tone)]
    /\ UNCHANGED <<solverVars, panic, test, tpc, out, mainVars, processor, workers>>

\* the pitch factors drawn: 1/2, 1, 3/2, 2 and 2/3
UnitPitches == {[n |-> 1, d |-> 2], [n |-> 1, d |-> 1], [n |-> 3, d |-> 2],
                [n |-> 2, d |-> 1], [n |-> 2, d |-> 3]}

\* the sounds drawn: up to MaxLen samples at every rate
UnitSounds ==
    { [samples |-> [i \in 1..len |-> p[((i - 1) % Len(p)) + 1]], d |-> 1,
       sample_rate |-> rate] :
        len \in 0..MaxLen, p \in SamplePatterns, rate \in UnitRates }

\* adjust_pitch with the length multiplied by the pitch instead of divided
adjust_pitch_stretched(sound, pitch) ==
    [sound EXCEPT !.samples =
        [k \in 1..((Len(sound.samples) * pitch.n) \div pitch.d) |-> 0]]

\* audio.rs lines 92-121, for the pitch n / d: element i of the result is
\* the sound at i * pitch, between its two neighbours when that is no index;
\* every sample of the result is a numerator over sound.d * pitch.d
adjust_pitch(sound, pitch) ==
    IF pitch.n = pitch.d THEN sound
    ELSE LET len == Len(sound.samples)
             new_length == (len * pitch.d) \div pitch.n
         IN  [samples |->
                [k \in 1..new_length |->
                    LET lower_index == ((k - 1) * pitch.n) \div pitch.d
                        ceiling == ((k - 1) * pitch.n + pitch.d - 1) \div pitch.d
                        upper_index == IF ceiling >= len THEN len - 1 ELSE ceiling
                        t == ((k - 1) * pitch.n) % pitch.d
                    IN  IF lower_index # upper_index
                        THEN sound.samples[lower_index + 1] * (pitch.d - t)
                                + sound.samples[upper_index + 1] * t
                        ELSE sound.samples[lower_index + 1] * pitch.d],
              d |-> sound.d * pitch.d,
              sample_rate |-> sound.sample_rate]

\* tests.rs lines 44-51: adjust_pitch of a sound
test_pitch ==
    /\ unit.op = "none"
    /\ \E sound \in UnitSounds : \E pitch \in UnitPitches :
          unit' = [op |-> "adjust_pitch", arg |-> pitch, before |-> sound,
                   after |-> adjust_pitch(sound, pitch)]
    /\ UNCHANGED <<solverVars, panic, test, tpc, out, mainVars, processor, workers>>

\* audio.rs lines 59-64: the lengths, and the panic when one of them is 0
\* (every sound drawn has a sample rate above 0)
resample_output_len(sound, new_rate) ==
    (Len(sound.samples) * new_rate) \div sound.sample_rate

resample_panics(sound, new_rate) ==
    Len(sound.samples) = 0 \/ resample_output_len(sound, new_rate) = 0

\* audio.rs lines 66-87, for a sound on which resample does not panic.  Equal
\* lengths return self as it is, sample_rate included.  Element i of the
\* result is the sound at i * (input_len - 1) / (output_len - 1), between its
\* two neighbours, a numerator over sound.d * (output_len - 1); an output of
\* one sample from a longer sound is 0 * (inf) = NaN, written 0 over 0.
resample(sound, new_rate) ==
    LET input_len == Len(sound.samples)
        output_len == resample_output_len(sound, new_rate)
        q == output_len - 1
    IN  IF input_len = output_len THEN sound
        ELSE [samples |->
                [k \in 1..output_len |->
                    IF q = 0 THEN 0
                    ELSE LET i == ((k - 1) * (input_len - 1)) \div q
                             frac == ((k - 1) * (input_len - 1)) % q
                             s1 == sound.samples[i + 1]
                             s2 == IF i + 2 <= input_len
                                   THEN sound.samples[i + 2] ELSE s1
                         IN  s1 * (q - frac) + s2 * frac],
              d |-> sound.d * q,
              sample_rate |-> new_rate]

\* tests.rs lines 28-33: resample of a sound
test_resample ==
    /\ unit.op = "none"
    /\ \E sound \in UnitSounds : \E new_rate \in UnitRates :
          IF resample_panics(sound, new_rate)
          THEN /\ panic' = ResampleFailed
               /\ unit' = [op |-> "resample", arg |-> new_rate, before |-> sound,
                           after |-> sound]
          ELSE /\ unit' = [op |-> "resample", arg |-> new_rate, before |-> sound,
                           after |-> resample(sound, new_rate)]
               /\ UNCHANGED panic
    /\ UNCHANGED <<solverVars, test, tpc, out, mainVars, processor, workers>>

\* the element values of the matrices drawn: all zero, all negative, mixed
\* signs, non-negative
MatrixPatterns ==
    {<<0, 0, 0, 0>>, <<-1, -3, -2, -1>>, <<-1, 3, 0, 2, 3>>, <<0, 7, 0, 0, 1>>}

\* the element values of the solver results drawn: no element below 0, all
\* zero, or values up to more than 1 / Epsilon apart
ActivationPatterns ==
    {<<0, 0, 0, 0>>, <<1, 200000, 2, 0, 3, 100000>>, <<0, 7, 0, 0, 1>>,
     <<300000, 2, 3, 4, 0>>}

UnitMatrix(r, n, p, den) ==
    [nr |-> r, nc |-> n,
     e |-> Tuple([k \in 1..(r * n) |-> p[((k - 1) % Len(p)) + 1]]),
     d |-> den]

UnitMatrices ==
    {UnitMatrix(r, n, p, den) :
        r \in 0..MaxDim, n \in 1..MaxDim, p \in MatrixPatterns, den \in {1, 3}}

\* the matrices a solver returns: project has left no element below 0
UnitActivations ==
    {UnitMatrix(r, n, p, den) :
        r \in 0..MaxDim, n \in 1..MaxDim, p \in ActivationPatterns, den \in {1, 3}}

\* main.rs lines 206-207 and 212: normalize_to_global on a matrix
call_normalize_to_global ==
    /\ unit.op = "none"
    /\ \E M \in UnitMatrices :
          unit' = [op |-> "normalize_to_global", arg |-> 0, before |-> M,
                   after |-> normalize_to_global(M)]
    /\ UNCHANGED <<solverVars, panic, test, tpc, out, mainVars, processor, workers>>

\* main.rs lines 210-213: what main does to the matrix pgd_nnls returned
call_postprocess ==
    /\ unit.op = "none"
    /\ \E M \in UnitActivations :
          unit' = [op |-> "postprocess", arg |-> Epsilon, before |-> M,
                   after |-> postprocess(M)]
    /\ UNCHANGED <<solverVars, panic, test, tpc, out, mainVars, processor, workers>>

\* the row lists drawn: up to MaxDim rows of 0 to MaxDim + 1 elements each,
\* of equal lengths or not; element j of row i is 10 i + j
UnitRows ==
    UNION {{Tuple([i \in 1..m |-> Tuple([j \in 1..lens[i] |-> 10 * i + j])]) :
               lens \in [1..m -> 0..(MaxDim + 1)]} : m \in 0..MaxDim}

\* tests.rs lines 53-63: matrix_from_vecs of a list of rows
test_layout ==
    /\ unit.op = "none"
    /\ \E matrix \in UnitRows :
          unit' = [op |-> "matrix_from_vecs", arg |-> 0, before |-> matrix,
                   after |-> matrix_from_vecs(matrix)]
    /\ UNCHANGED <<solverVars, panic, test, tpc, out, mainVars, processor, workers>>

\* audio.rs lines 21-34: every (identifier, sound) with every pitch of
\* interpolated_range(0.5, 2.0, resolution), samples outer and pitches inner,
\* each sound through adjust_pitch(pitch).first_tick()
permute_with_pitch(samples, resolution) ==
    LET pitches == interpolated_range(resolution) IN
    [j \in 1..(Len(samples) * resolution) |->
        LET st == samples[((j - 1) \div resolution) + 1]
            pitch == pitches[((j - 1) % resolution) + 1]
        IN  [id |-> st.id, pitch |-> pitch,
             sound |-> first_tick(adjust_pitch(st.sound, pitch))]]

\* the resolutions drawn (main passes 256)
UnitResolutions == {2, 3, 4}

\* main.rs line 149: permute_with_pitch of a sound list
call_permute_with_pitch ==
    /\ unit.op = "none"
    /\ \E sound \in UnitSounds : \E resolution \in UnitResolutions :
          LET samples == <<[id |-> SoundNames[1], sound |-> sound]>> IN
          unit' = [op |-> "permute_with_pitch", arg |-> resolution,
                   before |-> samples,
                   after |-> Tuple(permute_with_pitch(samples, resolution))]
    /\ UNCHANGED <<solverVars, panic, test, tpc, out, mainVars, processor, workers>>

\* a function called on its own
UnitInit ==
    /\ SolverIdle
    /\ panic = ""
    /\ test = NoTest /\ tpc = "off" /\ out = << >>
    /\ unit = NoUnit
    /\ ProcessorIdle
    /\ input = NoInput
    /\ pc = "off"
    /\ MainStart

UnitNext ==
    \/ test_firsttick
    \/ test_pitch
    \/ test_resample
    \/ call_normalize_to_global
    \/ call_postprocess
    \/ test_layout
    \/ call_permute_with_pitch

UnitSpec == UnitInit /\ [][UnitNext]_vars

\* the Processor shared by the threads that call fft and ifft
ProcessorInit == UnitInit

ProcessorNext ==
    \E w \in Workers :
        /\ \/ Processor_call(w)
           \/ Processor_get(w)
           \/ Processor_process(w)
           \/ Processor_return(w)
        /\ UNCHANGED <<solverVars, panic, test, tpc, out, unit, mainVars>>

ProcessorSpec == ProcessorInit /\ [][ProcessorNext]_vars

----------------------------------------------------------------------------
(* Properties of the solver, checked on SolverSpec *)

NonNegative(e) == \A k \in 1..Len(e) : e[k] >= 0

\* C1: in both backends every element of H is >= 0 at the start, after the
\* projection of every iteration, and in the returned matrix.  (Between the
\* gradient step and the projection of cpu_pgd_nnls, h may hold negatives;
\* on the device the step and the clamp are one kernel.)
C1_NonNegative ==
    /\ (args.fn = "cpu_pgd_nnls" /\ spc \in {"cpu_loop", "returned"})
          => NonNegative(h.e)
    /\ args.fn = "pgd_nnls" => NonNegative(h.e) /\ NonNegative(dev.h.e)
    /\ NonNegative(ret.e)
    /\ \A b \in DOMAIN out : NonNegative(out[b].e)

\* a call of cpu_pgd_nnls has returned after one iteration whose gradient step
\* went below zero somewhere, and the result is 0 there
C1_Witness ==
    /\ args.fn = "cpu_pgd_nnls" /\ spc = "returned" /\ args.iters = 1
    /\ \E k \in 1..Len(ret.e) :
          /\ cpu_gradient(zeros(args.basis.nc, args.data.nc), args.data, args.basis,
                          args.step).e[k] < 0
          /\ ret.e[k] = 0
    /\ \E k \in 1..Len(ret.e) : ret.e[k] > 0

\* Rationals [n, d] with d > 0, for a reference of the iteration that is
\* written element by element
QReduce(q) ==
    LET g == GCD(Abs(q.n), q.d) IN [n |-> q.n \div g, d |-> q.d \div g]

QAdd(a, b) == QReduce([n |-> a.n * b.d + b.n * a.d, d |-> a.d * b.d])

QSub(a, b) == QReduce([n |-> a.n * b.d - b.n * a.d, d |-> a.d * b.d])

QMul(a, b) == QReduce([n |-> a.n * b.n, d |-> a.d * b.d])

QMax0(a) == IF a.n >= 0 THEN a ELSE [n |-> 0, d |-> 1]

RECURSIVE QSum(_, _)
\* f[1] + ... + f[k]
QSum(f, k) == IF k = 0 THEN [n |-> 0, d |-> 1] ELSE QAdd(QSum(f, k - 1), f[k])

\* element (i, j) of a matrix as a rational
QAt(M, i, j) == [n |-> At(M, i, j), d |-> M.d]

RECURSIVE PgdReference(_, _, _, _)
\* H after k updates H <- max(0, H - t * W^T (W H - V)) from H = 0, as a
\* function of (j, c)
PgdReference(V, W, t, k) ==
    IF k = 0
    THEN [x \in (0..(W.nc - 1)) \X (0..(V.nc - 1)) |-> [n |-> 0, d |-> 1]]
    ELSE LET P == PgdReference(V, W, t, k - 1) IN
         [x \in (0..(W.nc - 1)) \X (0..(V.nc - 1)) |->
            QMax0(QSub(P[x],
                QMul(t, QSum([i \in 1..W.nr |->
                    QMul(QAt(W, i - 1, x[1]),
                         QSub(QSum([l \in 1..W.nc |->
                                     QMul(QAt(W, i - 1, l - 1), P[<<l - 1, x[2]>>])],
                                   W.nc),
                              QAt(V, i - 1, x[2])))], W.nr))))]

\* the matrix M has the shape (r, n) and the values of R
EqualsReference(M, R, r, n) ==
    /\ M.nr = r /\ M.nc = n /\ Len(M.e) = r * n
    /\ \A j \in 0..(r - 1) : \A c \in 0..(n - 1) :
          At(M, j, c) * R[<<j, c>>].d = R[<<j, c>>].n * M.d

\* C2: cpu_pgd_nnls starts from the zero matrix of shape (r, n) and applies
\* H <- max(0, H - t W^T (W H - V)) exactly I times, each time to the H of the
\* previous iteration; with I = 0 it returns the zero matrix; V and W are
\* never modified.
C2_CpuIterates ==
    args.fn = "cpu_pgd_nnls" =>
        /\ args.data = test.V /\ args.basis = test.W
        /\ spc \in {"cpu_loop", "returned"} =>
              /\ it <= args.iters
              /\ EqualsReference(h, PgdReference(test.V, test.W, args.step, it),
                                 test.W.nc, test.V.nc)
        /\ spc = "returned" =>
              /\ it = args.iters
              /\ ret = h
              /\ args.iters = 0 => ret = zeros(test.W.nc, test.V.nc)

\* cpu_pgd_nnls has returned after two iterations with a step of 1/2, and the
\* result has a positive and a zero element
C2_Witness ==
    /\ args.fn = "cpu_pgd_nnls" /\ spc = "returned" /\ args.iters >= 2
    /\ args.step.d = 2
    /\ \E k \in 1..Len(ret.e) : ret.e[k] > 0
    /\ \E k \in 1..Len(ret.e) : ret.e[k] = 0

\* C3: on equal inputs pgd_nnls (the three kernels, W^T built on the host as
\* w_t[j * m + i] = W[i, j]) returns a matrix of the shape (r, n) of
\* cpu_pgd_nnls, and after normalize_to_global the two differ by less than
\* 1e-7 in every element.
C3_BackendsAgree ==
    /\ (args.fn = "pgd_nnls" /\ spc = "returned") =>
          /\ Shape(ret) = <<args.basis.nc, args.data.nc>>
          /\ Len(ret.e) = args.basis.nc * args.data.nc
    /\ DOMAIN out = Backends =>
          LET cpu == out["cpu_pgd_nnls"]
              gpu == out["pgd_nnls"]
          IN  /\ Shape(gpu) = Shape(cpu)
              /\ Len(gpu.e) = Len(cpu.e)
              /\ \A k \in 1..Len(cpu.e) :
                    Abs(gpu.e[k] * cpu.d - cpu.e[k] * gpu.d)
                        <= (gpu.d * cpu.d - 1) \div 10000000
    /\ tpc # "failed"

\* both backends ran two iterations or more on a W whose transpose is laid
\* out differently from W itself, and the comparison passed on a result that
\* is not all zero
C3_Witness ==
    /\ tpc = "passed" /\ test.iters >= 2
    /\ build_w_t(test.W, test.W.nr, test.W.nc).e # test.W.e
    /\ \E k \in 1..Len(out["pgd_nnls"].e) : out["pgd_nnls"].e[k] > 0
    /\ \E k \in 1..Len(out["pgd_nnls"].e) :
          out["pgd_nnls"].e[k] # out["pgd_nnls"].e[1]

\* C4: in both backends a call whose V and W differ in their number of rows
\* halts at entry: no iteration runs, no device program or buffer is created,
\* and no H is returned.
C4_ShapeMismatchHalts ==
    (args.fn \in Backends /\ args.data.nr # args.basis.nr) =>
        /\ spc \in {"entry", "panicked"}
        /\ spc = "panicked" => panic = AssertFailed
        /\ it = 0 /\ h = NoMatrix /\ host = NoHost
        /\ created = <<>> /\ dev = NoDev /\ queue = <<>> /\ devlog = <<>>
        /\ ret = NoMatrix
        /\ args.fn \notin DOMAIN out
        /\ tpc \in {"wait", "panicked"}

\* pgd_nnls was called with more rows in V than in W, both non-empty, and the
\* panic of the assertion has unwound
C4_Witness ==
    /\ args.fn = "pgd_nnls" /\ args.data.nr > args.basis.nr /\ args.basis.nr > 0
    /\ args.data.nc > 0 /\ args.basis.nc > 0 /\ args.iters > 0
    /\ spc = "panicked" /\ tpc = "panicked" /\ panic = AssertFailed

\* the device refused a step of pgd_nnls
DeviceRefused == \E x \in 1..Len(devlog) : devlog[x][1] = "failed"

\* C6: a device step of pgd_nnls that fails aborts the call at that step: no
\* later kernel is enqueued, no H is returned, and cpu_pgd_nnls is not run in
\* its place.
C6_DeviceFailureAborts ==
    DeviceRefused =>
        /\ spc = "panicked" /\ panic = DeviceFailed
        /\ devlog[Len(devlog)][1] = "failed"
        /\ \A x \in 1..(Len(devlog) - 1) : devlog[x][1] # "failed"
        /\ args.fn = "pgd_nnls"
        /\ ret = NoMatrix
        /\ "pgd_nnls" \notin DOMAIN out
        /\ tpc \in {"wait", "panicked"}

\* the finish after gemm_grad failed in the second iteration, with
\* cpu_pgd_nnls still to run, and the panic has unwound through the harness
C6_Witness ==
    /\ DeviceRefused /\ it = 1 /\ tpc = "panicked"
    /\ Len(devlog) >= 2 /\ devlog[Len(devlog) - 1] = <<"run", "gemm_grad">>
    /\ out = << >>

----------------------------------------------------------------------------
(* Properties of main, checked on Spec *)

\* the ticks of the recording
Ticks ==
    LET samples_per_tick == time_as_samples(TickMs, input.sample_rate) IN
    IF samples_per_tick = 0 THEN 0 ELSE Len(input.samples) \div samples_per_tick

\* C5: with an empty palette (r = 0) or with no tick in the recording (n = 0)
\* the pipeline completes with an empty result: it does not fail and does not
\* halt.  (A refusal of the device and a chunk size of 0 are set aside.)
C5_EmptyInputCompletes ==
    (/\ input.channels = 1
     /\ time_as_samples(TickMs, input.sample_rate) > 0
     /\ Len(input.palette) = 0 \/ Ticks = 0
     /\ panic # DeviceFailed)
        => /\ panic = ""
           /\ pc # "panicked"
           /\ pc = "returned" => result = "Ok" /\ written = <<>>

Min(a, b) == IF a <= b THEN a ELSE b

C8_RecordOrder ==
    \A x \in 1..Len(written) :
        LET entries == written[x].entries
            emitted == {entries[y].column : y \in 1..Len(entries)}
        IN  /\ \A y \in 1..(Len(entries) - 1) :
                  /\ entries[y].amplitude.n >= entries[y + 1].amplitude.n
                  /\ entries[y].amplitude.n = entries[y + 1].amplitude.n
                        => entries[y].column < entries[y + 1].column
            /\ \A y \in 1..Len(entries) :
                  entries[y].amplitude.n
                      = At(approximation, entries[y].column, written[x].file)
            /\ \A j \in (0..(approximation.nr - 1)) \ emitted :
                  \A y \in 1..Len(entries) :
                      At(approximation, j, written[x].file) <= entries[y].amplitude.n

\* a record holds two entries of different amplitude, two of equal positive
\* amplitude, and a positive palette entry was left out of it
C8_Witness ==
    \E x \in 1..Len(written) :
        LET entries == written[x].entries IN
        /\ \E y \in 1..(Len(entries) - 1) :
              entries[y].amplitude.n > entries[y + 1].amplitude.n
        /\ \E y \in 1..(Len(entries) - 1) :
              /\ entries[y].amplitude.n = entries[y + 1].amplitude.n
              /\ entries[y].amplitude.n > 0
        /\ \E j \in 0..(approximation.nr - 1) :
              /\ \A y \in 1..Len(entries) : entries[y].column # j
              /\ At(approximation, j, written[x].file) > 0

\* C9: exactly one record is written for every column of H, in ascending
\* order of the tick from 0 to n - 1; record k is written as function k, and
\* none is written twice or out of order.
C9_OneRecordPerTick ==
    /\ \A x \in 1..Len(written) : written[x].file = x - 1
    /\ pc \in {"ticks", "returned", "panicked"} =>
          Len(written) = index /\ index <= approximation.nc
    /\ result = "Ok" =>
          /\ Len(written) = approximation.nc
          /\ approximation.nc = chunks.nc
          /\ Len(wav.ticks) = approximation.nc

\* main returned Ok after writing the records of two ticks
C9_Witness ==
    /\ pc = "returned" /\ result = "Ok" /\ Len(written) = 2
    /\ written[2].file = 1

\* C10: for a recording of more than one channel main returns an error
\* before anything is put out: no record of a tick is written, output.wav is
\* not created, and the solver is never called.
C10_StereoRefused ==
    input.channels > 1 =>
        /\ pc \in {"palette", "open", "returned"}
        /\ pc = "returned" => result = "Err(input was stereo)"
        /\ written = <<>> /\ wav = NoWav
        /\ SolverIdle /\ panic = ""

\* main has returned the error for a stereo recording that has ticks, with a
\* palette that is not empty
C10_Witness ==
    /\ input.channels = 2 /\ Ticks > 0 /\ Len(input.palette) > 0
    /\ pc = "returned" /\ result = "Err(input was stereo)"

\* C11: a mono recording of L samples at the rate s has, with
\* spt = floor(50 * s / 1000), exactly floor(L / spt) ticks; tick k is the
\* samples [k * spt, (k + 1) * spt) in their order, and the last L mod spt
\* samples are in no tick.  (Column k of V is mel of tick k; the division of
\* normalize_to_global changes the denominator only.)
C11_TicksExact ==
    (/\ input.channels = 1
     /\ pc \in {"solve", "solving", "ticks", "returned", "panicked"}
     /\ panic # ChunkFailed)
        => LET spt == time_as_samples(TickMs, input.sample_rate)
               n == Len(input.samples) \div spt
           IN  /\ result # "Err(shape)"
               /\ chunks.nc = n
               /\ n > 0 => chunks.nr = spt
               /\ Len(chunks.e) = n * spt
               /\ \A k \in 0..(n - 1) : \A j \in 0..(spt - 1) :
                     At(chunks, j, k)
                         = mel(SubSeq(input.samples, k * spt + 1, (k + 1) * spt))[j + 1]

\* V was built from a recording of two whole ticks and a remainder
C11_Witness ==
    /\ pc = "solve" /\ chunks.nc = 2
    /\ Len(input.samples) % time_as_samples(TickMs, input.sample_rate) # 0
    /\ \E k \in 1..Len(chunks.e) : chunks.e[k] # 0

----------------------------------------------------------------------------
(* Properties of the functions called on their own, checked on UnitSpec *)

\* C12 as claimed: for every sample rate and frequency, first_tick of a tone
\* of 50 ms made by gen_frequency has as many samples as the tone, that
\* number being ceil(rate * 50 / 1000), and the tone's sample rate.
C12_FirstTickKeepsTone ==
    unit.op = "first_tick" =>
        /\ Len(unit.after.samples) = Len(unit.before.samples)
        /\ Len(unit.after.samples) * 1000 >= unit.before.sample_rate * 50
        /\ (Len(unit.after.samples) - 1) * 1000 < unit.before.sample_rate * 50
        /\ unit.after.sample_rate = unit.before.sample_rate

\* C12, amended: first_tick of the tone has exactly ceil(rate * 50 / 1000)
\* samples and the tone's sample rate; it has the tone's floor(rate * 50 /
\* 1000) samples, unchanged, when rate * 50 is a multiple of 1000, and
\* otherwise one sample more, the tone followed by a 0.
C12_FirstTickCeil ==
    unit.op = "first_tick" =>
        LET tone == unit.before
            tick == unit.after
            n == Len(tone.samples)
        IN  /\ n = (tone.sample_rate * 50) \div 1000
            /\ Len(tick.samples) * 1000 >= tone.sample_rate * 50
            /\ (Len(tick.samples) - 1) * 1000 < tone.sample_rate * 50
            /\ tick.sample_rate = tone.sample_rate /\ tick.d = tone.d
            /\ \A i \in 1..n : tick.samples[i] = tone.samples[i]
            /\ IF (tone.sample_rate * 50) % 1000 = 0
               THEN Len(tick.samples) = n
               ELSE Len(tick.samples) = n + 1 /\ tick.samples[n + 1] = 0

\* first_tick was applied to a tone of two and a half samples' length
C12_Witness ==
    /\ unit.op = "first_tick" /\ unit.before.sample_rate = 50
    /\ Len(unit.before.samples) = 2 /\ Len(unit.after.samples) = 3

\* C13: for every Sound s and pitch p > 0, adjust_pitch(p) returns exactly
\* floor(|s| / p) samples (2 |s| for p = 0.5), leaves the sample rate as it
\* is, and returns the samples unchanged for p = 1.
C13_PitchLength ==
    unit.op = "adjust_pitch" =>
        LET len == Len(unit.before.samples)
            out_len == Len(unit.after.samples)
            p == unit.arg
        IN  /\ out_len * p.n <= len * p.d
            /\ len * p.d < (out_len + 1) * p.n
            /\ (p.n = 1 /\ p.d = 2) => out_len = 2 * len
            /\ unit.after.sample_rate = unit.before.sample_rate
            /\ p.n = p.d => unit.after = unit.before
            /\ \A k \in 1..out_len :
                  ((k - 1) * p.n) % p.d = 0 =>
                      unit.after.samples[k] * unit.before.d
                          = unit.before.samples[((k - 1) * p.n) \div p.d + 1]
                                * unit.after.d

\* adjust_pitch(3/2) made two samples of four, the second between two of the
\* sound's, and they are not both zero
C13_Witness ==
    /\ unit.op = "adjust_pitch" /\ unit.arg = [n |-> 3, d |-> 2]
    /\ Len(unit.before.samples) = 4 /\ Len(unit.after.samples) = 2
    /\ unit.after.samples[2] # 0

\* C14: for every non-empty Sound and target rate whose output length
\* floor(|s| * target_rate / rate) is not zero, after resample(target_rate)
\* the Sound holds exactly that many samples and its sample_rate is
\* target_rate.
C14_ResampleLengthAndRate ==
    (/\ unit.op = "resample"
     /\ Len(unit.before.samples) > 0
     /\ (Len(unit.before.samples) * unit.arg) \div unit.before.sample_rate > 0)
        => /\ panic = ""
           /\ Len(unit.after.samples)
                 = (Len(unit.before.samples) * unit.arg) \div unit.before.sample_rate
           /\ unit.after.sample_rate = unit.arg

\* C15: when the input length or the computed output length of resample is
\* zero, resample returns an empty Sound to its caller, which goes on.
C15_ResampleEmptyOnZero ==
    (/\ unit.op = "resample"
     /\ \/ Len(unit.before.samples) = 0
        \/ (Len(unit.before.samples) * unit.arg) \div unit.before.sample_rate = 0)
        => /\ panic = ""
           /\ unit.after.samples = <<>>

\* C16: normalize_to_global leaves the matrix as it is when its maximum is
\* <= 0 or it is empty; otherwise every element is the old one divided by the
\* old maximum, the maximum is exactly 1 and every element is <= 1.
C16_NormalizeToGlobal ==
    unit.op = "normalize_to_global" =>
        LET b == unit.before
            a == unit.after
        IN  IF b.e = <<>> \/ SeqMax(b.e) <= 0
            THEN a = b
            ELSE /\ a.nr = b.nr /\ a.nc = b.nc /\ Len(a.e) = Len(b.e)
                 /\ a.d > 0
                 /\ \A k \in 1..Len(a.e) :
                       /\ a.e[k] * SeqMax(b.e) = b.e[k] * a.d
                       /\ a.e[k] <= a.d
                 /\ SeqMax(a.e) = a.d

C16_Witness ==
    /\ unit.op = "normalize_to_global"
    /\ unit.before.e # <<>>
    /\ SeqMax(unit.before.e) > unit.before.d
    /\ \E k \in 1..Len(unit.before.e) : unit.before.e[k] < 0
    /\ unit.after # unit.before

\* C17: after normalize_to_global and apply_epsilon(1e-5) every element of
\* the activation matrix is exactly 0 or lies in [epsilon, 1], and
\* apply_epsilon changed only the entries strictly below epsilon.
C17_ZeroOrEpsilonToOne ==
    unit.op = "postprocess" =>
        LET a == unit.after
            m == normalize_to_global(unit.before)
            least == (a.d * Epsilon.n + Epsilon.d - 1) \div Epsilon.d
        IN  /\ a.d = m.d /\ Len(a.e) = Len(m.e)
            /\ \A k \in 1..Len(a.e) :
                  /\ a.e[k] = 0 \/ (a.e[k] >= least /\ a.e[k] <= a.d)
                  /\ m.e[k] >= least => a.e[k] = m.e[k]
                  /\ a.e[k] # m.e[k] => (m.e[k] < least /\ a.e[k] = 0)

C17_Witness ==
    /\ unit.op = "postprocess"
    /\ \E j, k, l \in 1..Len(unit.after.e) :
          /\ unit.before.e[j] > 0 /\ unit.after.e[j] = 0
          /\ unit.after.d % Epsilon.d = 0
          /\ unit.after.e[k] = (unit.after.d \div Epsilon.d) * Epsilon.n
          /\ unit.after.e[l] = unit.after.d

\* C18: matrix_from_vecs succeeds exactly when all rows have the same
\* length; then the matrix has shape (|rows|, |rows[0]|) and its row-major
\* iteration is the concatenation of the rows; rows that differ in length
\* give an error.
C18_OkIffEqualRows ==
    unit.op = "matrix_from_vecs" =>
        LET rows == unit.before
            equal == \A i, j \in 1..Len(rows) : Len(rows[i]) = Len(rows[j])
        IN  /\ unit.after.ok <=> equal
            /\ unit.after.ok =>
                  /\ unit.after.m.nr = Len(rows)
                  /\ unit.after.m.nc = (IF Len(rows) > 0 THEN Len(rows[1]) ELSE 0)
                  /\ unit.after.m.e = Flatten(rows)

\* C19: a palette entry (identifier, pitch) whose pitch-shifted sample is
\* shorter than one tick is discarded: no entry of the list returned by
\* permute_with_pitch comes from a pitch-shifted sound shorter than a tick.
C19_ShortEntriesDiscarded ==
    unit.op = "permute_with_pitch" =>
        \A j \in 1..Len(unit.after) : \A i \in 1..Len(unit.before) :
            unit.before[i].id = unit.after[j].id =>
                LET sound == unit.before[i].sound
                    shifted == adjust_pitch(sound, unit.after[j].pitch)
                IN  Len(shifted.samples) >= (sound.sample_rate * TickMs + 999) \div 1000

----------------------------------------------------------------------------
(* Properties of main, checked on Spec *)

\* C20: for every accepted mono input, at any sample rate, every input tick
\* has the length of the palette's vectors (one tick at the palette's rate),
\* so V and W have the same number of rows whenever main invokes the solver
\* (stated for a recording of at least one tick and a palette that is not
\* empty).
C20_TickLengthIsPaletteLength ==
    (/\ pc = "solving"
     /\ input.channels = 1
     /\ chunks.nc > 0
     /\ sound_bins.nc > 0)
        => /\ chunks.nr = TickLen
           /\ chunks.nr = sound_bins.nr

----------------------------------------------------------------------------
(* The order of the device's work in pgd_nnls, checked on SolverSpec *)

\* the kernel whose turn it is at position p of the device log: three
\* entries (enqueued, run, finished) for each kernel, the kernels in the
\* order of Kernels, over and over
KernelAt(p) == Kernels[(((p - 1) \div 3) % Len(Kernels)) + 1]

\* C21: every iteration of pgd_nnls enqueues gemm_whv, gemm_grad, update_h in
\* this order, each run and finished before the next is enqueued, so at most
\* one kernel is in flight, no kernel of the next iteration starts before
\* update_h has completed, and H is read only after the last update_h has.
C21_OneKernelInFlight ==
    /\ Len(queue) <= 1
    /\ \A p \in 1..Len(devlog) :
          LET ev == devlog[p] IN
          /\ ev[1] = "enq" =>
                /\ p % 3 = 1 /\ ev[2] = KernelAt(p)
                /\ (p - 1) \div 9 < args.iters
          /\ ev[1] = "run" => (p % 3 = 2 /\ devlog[p - 1] = <<"enq", ev[2]>>)
          /\ ev[1] = "finish" => (p % 3 = 0 /\ devlog[p - 1] = <<"run", ev[2]>>)
          /\ ev[1] = "read" => p = 9 * args.iters + 1
          /\ ev[1] = "failed" => p = Len(devlog)

C21_Witness ==
    /\ args.fn = "pgd_nnls" /\ spc = "returned"
    /\ args.iters = 2
    /\ Len(devlog) = 19
    /\ devlog[9] = <<"finish", "update_h">>
    /\ devlog[10] = <<"enq", "gemm_whv">>
    /\ devlog[19] = <<"read", "buffer_h">>

----------------------------------------------------------------------------
(* The plan caches of the Processor, checked on ProcessorSpec *)

\* C22: after Processor::new both caches hold exactly the keys 2205 and 2400;
\* no sequence of fft and ifft calls, of any lengths and from any number of
\* threads at once, adds, removes or replaces an entry; and a call with a
\* length that is not cached goes on with a plan built for it and returns.
C22_CachesImmutable ==
    /\ DOMAIN processor.fft_cache = {2205, 2400}
    /\ DOMAIN processor.ifft_cache = {2205, 2400}
    /\ processor = Processor_new
    /\ \A w \in Workers :
          /\ workers[w].pc \in {"process", "returned"} =>
                /\ workers[w].miss <=> workers[w].length \notin {2205, 2400}
                /\ workers[w].miss => workers[w].plan.built = "miss"
                /\ workers[w].plan.len = workers[w].length
          /\ workers[w].pc = "process" => ENABLED Processor_process(w)
          /\ workers[w].pc = "returned" => workers[w].out = workers[w].length

C22_Witness ==
    /\ workers[1].pc = "returned" /\ workers[1].miss /\ workers[1].op = "fft"
    /\ workers[2].pc = "process" /\ workers[2].miss /\ workers[2].op = "ifft"
    /\ workers[1].length = workers[2].length

----------------------------------------------------------------------------
(* The records of the emission loop, checked on Spec *)

\* C23: every function that an emitted record schedules is itself an emitted
\* record: record k schedules function k + 1, and once main has returned Ok
\* with n records no record schedules a function of index >= n.
C23_ScheduleChainClosed ==
    /\ \A x \in 1..Len(written) : written[x].schedule = written[x].file + 1
    /\ result = "Ok" =>
          \A x \in 1..Len(written) :
              /\ written[x].schedule < Len(written)
              /\ \E y \in 1..Len(written) : written[y].file = written[x].schedule

\* C24: every entry emitted for tick k carries the identifier and the pitch
\* of the palette column j whose activation H[j, k] is its amplitude, and
\* what is mixed into the reconstruction for it is column j of W: the sort
\* and the cut to the top 64 never pair an amplitude with another column's
\* key or waveform.
C24_EntryKeepsItsColumn ==
    \A x \in 1..Len(written) :
        LET entries == written[x].entries
            tick == written[x].file
        IN  /\ \A y \in 1..Len(entries) :
                  LET j == entries[y].column IN
                  /\ j \in 0..(Len(sound_ids) - 1)
                  /\ entries[y].name = sound_ids[j + 1].id
                  /\ entries[y].pitch = sound_ids[j + 1].pitch
                  /\ entries[y].name = input.palette[j + 1].id
                  /\ entries[y].pitch = input.palette[j + 1].pitch
                  /\ entries[y].amplitude.n = At(approximation, j, tick)
                  /\ entries[y].amplitude.d = approximation.d
            /\ Len(wav.ticks) >= x
            /\ \A s \in 1..sound_bins.nr :
                  wav.ticks[x].e[s] =
                      SeqSum([y \in 1..Len(entries) |->
                          At(approximation, entries[y].column, tick)
                              * At(sound_bins, s - 1, entries[y].column)])

\* a record whose first entry is not palette column 0 and has a positive
\* amplitude: the sort has moved it, and the palette holds more than 64
C24_Witness ==
    /\ Len(sound_ids) > TopK
    /\ \E x \in 1..Len(written) :
          /\ written[x].entries[1].column > 0
          /\ written[x].entries[1].amplitude.n > 0
          /\ \E s \in 1..sound_bins.nr : wav.ticks[x].e[s] # 0

====
